---- MODULE Spec2Model ----
(***************************************************************************)
(* The Calva Clojure lexer: the two lexical grammars (toplevel, inString), *)
(* the Scanner with its retained ScannerState, and Scanner.processLine.    *)
(*                                                                         *)
(* Text is a sequence of one-character strings.  Positions and offsets are *)
(* zero-based as in the source; At(line, p) is the character at offset p.  *)
(* JavaScript objects are modelled by identity: `heap` holds the           *)
(* ScannerState objects, `readerTokens` the lexer tokens that were stored  *)
(* as currentReaderToken, and every reference is an index into them.       *)
(***************************************************************************)
EXTENDS Integers, Sequences, FiniteSets, TLC

(***************************************************************************)
(* Bounds of the model.                                                    *)
(***************************************************************************)
MaxCalls == 2
MaxOpenLen == 2

(***************************************************************************)
(* Characters.                                                             *)
(***************************************************************************)
Quote == "\""
Backslash == "\\"
Newline == "\n"
\* the backtick, which a string of this notation cannot hold
Backtick == "BACKTICK"

Digits == {"0", "1", "2", "3", "4", "5", "6", "7", "8", "9"}

Letters ==
    {"a", "b", "c", "d", "e", "f", "g", "h", "i", "j", "k", "l", "m",
     "n", "o", "p", "q", "r", "s", "t", "u", "v", "w", "x", "y", "z",
     "A", "B", "C", "D", "E", "F", "G", "H", "I", "J", "K", "L", "M",
     "N", "O", "P", "Q", "R", "S", "T", "U", "V", "W", "X", "Y", "Z"}

Punctuation ==
    {"(", ")", "[", "]", "{", "}", Quote, Backslash, "#", "_", "@", "~",
     "'", Backtick, "^", "?", ":", ";", ",", ".", "-", "+", " ", "\t"}

LineTerminators == {"\n", "\r"}

Char == Digits \cup Letters \cup Punctuation \cup LineTerminators

\* \s of the regular expressions
Space == {" ", "\t", "\n", "\r"}
Brackets == {"(", ")", "[", "]", "{", "}"}
OpenBrackets == {"(", "[", "{", Quote}

\* [^\(\)\[\]\{\}"_@~\s,] : the characters of a data reader tag
ReaderChar == Char \ (Brackets \cup {Quote, "_", "@", "~", ","} \cup Space)
\* ['`~#@?^] : the prefix characters of an open token
OpenPrefix == {"'", Backtick, "~", "#", "@", "?", "^"}
\* ['`~#] : the prefix characters of a literal
LitPrefix == {"'", Backtick, "~", "#"}
\* ['`~^] : the prefix characters of a keyword
KwPrefix == {"'", Backtick, "~", "^"}
\* ['`~#^@] : the prefix characters of a symbol
IdPrefix == {"'", Backtick, "~", "#", "^", "@"}
\* [^()[\]\{\},~@`^\"\s;] : the characters of a keyword after the colon
KwChar == Char \ (Brackets \cup {",", "~", "@", Backtick, "^", Quote, ";"} \cup Space)
\* [^_()[\]\{\}#,~@'`^\"\s:;] : the first character of a symbol
IdFirst ==
    Char \ (Brackets \cup {"_", "#", ",", "~", "@", "'", Backtick, "^", Quote, ":", ";"}
            \cup Space)
\* [^()[\]\{\},~@`\"\s;] : the following characters of a symbol
IdRest == Char \ (Brackets \cup {",", "~", "@", Backtick, Quote, ";"} \cup Space)
\* [^\(\)\[\]\{\}\s] : the characters of a character literal
CharLitChar == Char \ (Brackets \cup Space)
\* [^\\"\t\r\n ] : an unescaped character inside a string
StrChar == Char \ {Backslash, Quote, "\t", "\r", "\n", " "}
\* . of the regular expressions
AnyChar == Char \ LineTerminators

(***************************************************************************)
(* Helpers of the pattern matching.  A match function gives the offset     *)
(* right after the match of its pattern anchored at offset p, or NoMatch.  *)
(***************************************************************************)
NoMatch == -1

At(line, p) == line[p + 1]

Slice(line, from, to) == SubSeq(line, from + 1, to)

\* the offset after the longest run of characters of S that starts at p
RunEnd(line, p, S) ==
    CHOOSE j \in p..Len(line) :
        /\ \A i \in p..(j - 1) : At(line, i) \in S
        /\ j = Len(line) \/ At(line, j) \notin S

WordAt(line, p, word) ==
    /\ p + Len(word) <= Len(line)
    /\ Slice(line, p, p + Len(word)) = word

Max(S) == CHOOSE x \in S : \A y \in S : y <= x
Min(S) == CHOOSE x \in S : \A y \in S : x <= y

\* a repetition with + that ran from p to e
NonEmpty(p, e) == IF e > p THEN e ELSE NoMatch

\* (C\s*)* with C a set of prefix characters, followed by a token that
\* starts with neither a prefix character nor whitespace: the cluster is
\* the longest run of prefix characters and whitespace, and it has to
\* start with a prefix character.
ClusterEnd(line, p, prefix) ==
    IF At(line, p) \in prefix THEN RunEnd(line, p, prefix \cup Space)
    ELSE IF At(line, p) \in Space THEN NoMatch
    ELSE p

(***************************************************************************)
(* The toplevel grammar, one match function per terminal.                  *)
(***************************************************************************)
\* /[\t ,]+/
MatchWs(line, p) == NonEmpty(p, RunEnd(line, p, {"\t", " ", ","}))

\* /(\r|\n|\r\n)/
MatchNewline(line, p) ==
    IF At(line, p) \in {"\r", "\n"} THEN p + 1 ELSE NoMatch

\* /;.*/
MatchComment(line, p) ==
    IF At(line, p) = ";" THEN RunEnd(line, p + 1, AnyChar) ELSE NoMatch

\* the lookbehind (?<=(^|[\(\)\[\]\{\}\s,])) of the open terminal
LookBehind(line, i) ==
    \/ i = 0
    \/ At(line, i - 1) \in Brackets \cup Space \cup {","}

\* ['`~#@?^]* up to the bracket at q
OpenC(line, i, q) == \A k \in i..(q - 1) : At(line, k) \in OpenPrefix

RECURSIVE OpenB(_, _, _)
\* ((?<=(^|[\(\)\[\]\{\}\s,]))['`~#@?^]\s*)* and the rest, up to the bracket at q
OpenB(line, i, q) ==
    \/ OpenC(line, i, q)
    \/ /\ i < q
       /\ LookBehind(line, i)
       /\ At(line, i) \in OpenPrefix
       /\ \E k \in (i + 1)..q :
            /\ \A m \in (i + 1)..(k - 1) : At(line, m) \in Space
            /\ OpenB(line, k, q)

RECURSIVE OpenA(_, _, _)
\* (#[^\(\)\[\]\{\}"_@~\s,]+[\s,]*)* and the rest, up to the bracket at q
OpenA(line, i, q) ==
    \/ OpenB(line, i, q)
    \/ /\ i < q
       /\ At(line, i) = "#"
       /\ \E j \in (i + 2)..q :
            /\ \A m \in (i + 1)..(j - 1) : At(line, m) \in ReaderChar
            /\ \E k \in j..q :
                 /\ \A m \in j..(k - 1) : At(line, m) \in Space \cup {","}
                 /\ OpenA(line, k, q)

\* /(#[^\(\)\[\]\{\}"_@~\s,]+[\s,]*)*((?<=(^|[\(\)\[\]\{\}\s,]))['`~#@?^]\s*)*['`~#@?^]*[\(\[\{"]/
\* No character the prefixes can match is an opening bracket, so every
\* match ends right after the first opening bracket at or after p.
OpenUpTo(line, p, qs) ==
    IF qs = {} THEN NoMatch
    ELSE IF OpenA(line, p, Min(qs)) THEN Min(qs) + 1
    ELSE NoMatch

MatchOpen(line, p) ==
    OpenUpTo(line, p, {q \in p..(Len(line) - 1) : At(line, q) \in OpenBrackets})

\* /\)|\]|\}/
MatchClose(line, p) ==
    IF At(line, p) \in {")", "]", "}"} THEN p + 1 ELSE NoMatch

\* /#_/
MatchIgnore(line, p) ==
    IF WordAt(line, p, <<"#", "_">>) THEN p + 2 ELSE NoMatch

\* /(\\[^\(\)\[\]\{\}\s]+|\\[\(\)\[\]\{\}])/
MatchCharLit(line, p) ==
    IF At(line, p) # Backslash \/ p + 1 >= Len(line) THEN NoMatch
    ELSE IF At(line, p + 1) \in CharLitChar
         THEN RunEnd(line, p + 1, CharLitChar)
    ELSE IF At(line, p + 1) \in Brackets THEN p + 2
    ELSE NoMatch

\* (true|false|nil) at r, the end of the prefix cluster
WordEnd(line, r) ==
    IF r = NoMatch THEN NoMatch
    ELSE IF WordAt(line, r, <<"t", "r", "u", "e">>) THEN r + 4
    ELSE IF WordAt(line, r, <<"f", "a", "l", "s", "e">>) THEN r + 5
    ELSE IF WordAt(line, r, <<"n", "i", "l">>) THEN r + 3
    ELSE NoMatch

\* /(['`~#]\s*)*(true|false|nil)/
MatchWordLit(line, p) == WordEnd(line, ClusterEnd(line, p, LitPrefix))

\* [rR][0-9a-zA-Z]+ after the digits from r to d
RadixTail(line, r, d) ==
    IF d = r \/ d >= Len(line) THEN NoMatch
    ELSE IF At(line, d) \notin {"r", "R"} THEN NoMatch
    ELSE IF RunEnd(line, d + 1, Digits \cup Letters) > d + 1
         THEN RunEnd(line, d + 1, Digits \cup Letters)
    ELSE NoMatch

\* ([0-9]+[rR][0-9a-zA-Z]+) at r
RadixEnd(line, r) ==
    IF r = NoMatch THEN NoMatch ELSE RadixTail(line, r, RunEnd(line, r, Digits))

\* /(['`~#]\s*)*([0-9]+[rR][0-9a-zA-Z]+)/
MatchRadixLit(line, p) == RadixEnd(line, ClusterEnd(line, p, LitPrefix))

\* [0-9]+ at d, NoMatch when there is no digit
DigitsEnd(line, d) == NonEmpty(d, RunEnd(line, d, Digits))

\* [-+]? at r
SignEnd(line, r) ==
    IF r < Len(line) /\ At(line, r) \in {"-", "+"} THEN r + 1 ELSE r

\* an optional part: its end e when it matched, else where it started
Optional(from, e) == IF e # NoMatch THEN e ELSE from

\* (\.[0-9]+)? at d
FractionEnd(line, d) ==
    IF d + 1 < Len(line) /\ At(line, d) = "."
    THEN Optional(d, DigitsEnd(line, d + 1)) ELSE d

\* ([eE][-+]?[0-9]+)? at f
ExponentEnd(line, f) ==
    IF f < Len(line) /\ At(line, f) \in {"e", "E"}
    THEN Optional(f, DigitsEnd(line, SignEnd(line, f + 1))) ELSE f

\* (\.[0-9]+)?([eE][-+]?[0-9]+)? after the digits that end at d
NumberTail(line, d) ==
    IF d = NoMatch THEN NoMatch ELSE ExponentEnd(line, FractionEnd(line, d))

\* ([-+]?[0-9]+(\.[0-9]+)?([eE][-+]?[0-9]+)?) at r
NumberEnd(line, r) ==
    IF r = NoMatch THEN NoMatch
    ELSE NumberTail(line, DigitsEnd(line, SignEnd(line, r)))

\* /(['`~#]\s*)*([-+]?[0-9]+(\.[0-9]+)?([eE][-+]?[0-9]+)?)/
MatchNumberLit(line, p) == NumberEnd(line, ClusterEnd(line, p, LitPrefix))

\* (:[^()[\]\{\},~@`^\"\s;]*) at i
KwColon(line, i) ==
    IF i < Len(line) /\ At(line, i) = ":"
    THEN RunEnd(line, i + 1, KwChar) ELSE NoMatch

RECURSIVE KwK(_, _)
\* the rest after the longest whitespace run that lets it match
KwKPick(line, i, ks) ==
    IF ks # {} THEN KwK(line, Max(ks)) ELSE KwColon(line, i)

\* (['`~^]\s*)*(:...) at i: the greedy repetition tries the longest
\* whitespace run first and gives characters back until the rest matches
KwK(line, i) ==
    IF i < Len(line) /\ At(line, i) \in KwPrefix
    THEN KwKPick(line, i, {k \in (i + 1)..RunEnd(line, i + 1, Space) :
                              KwK(line, k) # NoMatch})
    ELSE KwColon(line, i)

\* the pair that the backtracking reaches first: the longest tag, and for
\* it the longest run of whitespace and commas
LexMax(ps) ==
    CHOOSE x \in ps :
        \A y \in ps : y[1] < x[1] \/ (y[1] = x[1] /\ y[2] <= x[2])

RECURSIVE KwA(_, _)
KwAPick(line, i, ps) ==
    IF ps # {} THEN KwA(line, LexMax(ps)[2]) ELSE KwK(line, i)

\* (#[^\(\)\[\]\{\}"_@~\s,]+[\s,]*)* and the rest at i, greedy with backtracking:
\* the tag ends at j, the whitespace and commas after it at k
KwA(line, i) ==
    IF i + 1 < Len(line) /\ At(line, i) = "#"
    THEN KwAPick(line, i,
                 {x \in ((i + 2)..Len(line)) \X ((i + 2)..Len(line)) :
                     /\ x[1] <= RunEnd(line, i + 1, ReaderChar)
                     /\ x[1] <= x[2]
                     /\ x[2] <= RunEnd(line, x[1], Space \cup {","})
                     /\ KwA(line, x[2]) # NoMatch})
    ELSE KwK(line, i)

\* /(#[^\(\)\[\]\{\}"_@~\s,]+[\s,]*)*(['`~^]\s*)*(:[^()[\]\{\},~@`^\"\s;]*)/
MatchKw(line, p) == KwA(line, p)

\* /#[^\(\)\[\]\{\}"_@~\s,]+/
MatchReader(line, p) ==
    IF At(line, p) # "#" \/ p + 1 >= Len(line) THEN NoMatch
    ELSE NonEmpty(p + 1, RunEnd(line, p + 1, ReaderChar))

\* ([^_()[\]\{\}#,~@'`^\"\s:;][^()[\]\{\},~@`\"\s;]*) at r
IdEnd(line, r) ==
    IF r = NoMatch \/ r >= Len(line) THEN NoMatch
    ELSE IF At(line, r) \notin IdFirst THEN NoMatch
    ELSE RunEnd(line, r + 1, IdRest)

\* /(['`~#^@]\s*)*([^_()[\]\{\}#,~@'`^\"\s:;][^()[\]\{\},~@`\"\s;]*)/
MatchId(line, p) == IdEnd(line, ClusterEnd(line, p, IdPrefix))

\* /./
MatchJunk(line, p) ==
    IF At(line, p) \in AnyChar THEN p + 1 ELSE NoMatch

(***************************************************************************)
(* The inString grammar.                                                   *)
(***************************************************************************)
\* /"/
MatchStrClose(line, p) ==
    IF At(line, p) = Quote THEN p + 1 ELSE NoMatch

RECURSIVE StrInsideEnd(_, _)
\* (\\.|[^\\"\t\r\n ])* from p on
StrInsideEnd(line, p) ==
    IF p >= Len(line) THEN p
    ELSE IF At(line, p) = Backslash
         THEN IF p + 1 < Len(line) /\ At(line, p + 1) \in AnyChar
              THEN StrInsideEnd(line, p + 2) ELSE p
    ELSE IF At(line, p) \in StrChar THEN StrInsideEnd(line, p + 1)
    ELSE p

\* /(\\.|[^\\"\t\r\n ])+/
MatchStrInside(line, p) == NonEmpty(p, StrInsideEnd(line, p))

\* /[\t ]+/
MatchStrWs(line, p) == NonEmpty(p, RunEnd(line, p, {"\t", " "}))

\* /(\r?\n)/
MatchStrNewline(line, p) ==
    IF At(line, p) = "\n" THEN p + 1
    ELSE IF At(line, p) = "\r" /\ p + 1 < Len(line) /\ At(line, p + 1) = "\n"
         THEN p + 2
    ELSE NoMatch

(***************************************************************************)
(* The two grammars: the terminals in the order they were added, each with *)
(* the token type its callback gives.                                      *)
(***************************************************************************)
Rule(type, end) == [type |-> type, end |-> end]

toplevel(line, p) ==
    << Rule("ws", MatchWs(line, p)),
       Rule("ws", MatchNewline(line, p)),
       Rule("comment", MatchComment(line, p)),
       Rule("open", MatchOpen(line, p)),
       Rule("close", MatchClose(line, p)),
       Rule("ignore", MatchIgnore(line, p)),
       Rule("lit", MatchCharLit(line, p)),
       Rule("lit", MatchWordLit(line, p)),
       Rule("lit", MatchRadixLit(line, p)),
       Rule("lit", MatchNumberLit(line, p)),
       Rule("kw", MatchKw(line, p)),
       Rule("reader", MatchReader(line, p)),
       Rule("id", MatchId(line, p)),
       Rule("junk", MatchJunk(line, p)) >>

inString(line, p) ==
    << Rule("close", MatchStrClose(line, p)),
       Rule("str-inside", MatchStrInside(line, p)),
       Rule("ws", MatchStrWs(line, p)),
       Rule("ws", MatchStrNewline(line, p)) >>

(***************************************************************************)
(* The Lexer of a grammar over one line (lexer.ts, a file of the           *)
(* repository that is not part of the sources at hand; modelled from the   *)
(* specification's Rule Table): the first terminal, in table order, that   *)
(* matches at the position gives the token; there is no token at or after  *)
(* the length cap, at the end of the line, or where no terminal matches.   *)
(***************************************************************************)
NoToken == [type |-> "none", raw |-> <<>>, offset |-> 0]

TokenOf(line, position, rule) ==
    [type |-> rule.type, raw |-> Slice(line, position, rule.end),
     offset |-> position]

Grammar(lex, line, p) ==
    IF lex = "inString" THEN inString(line, p) ELSE toplevel(line, p)

\* the token of the first terminal of `rules` that matched at position
FirstMatch(line, position, rules, hits) ==
    IF hits = {} THEN NoToken
    ELSE TokenOf(line, position, rules[Min(hits)])

Hits(rules) == {i \in DOMAIN rules : rules[i].end # NoMatch}

ScanWith(line, position, rules) ==
    FirstMatch(line, position, rules, Hits(rules))

scan(lex, line, position, cap) ==
    IF position >= cap \/ position >= Len(line) THEN NoToken
    ELSE ScanWith(line, position, Grammar(lex, line, position))

(***************************************************************************)
(* validPair, in its two copies.  A text is a sequence of characters; the  *)
(* character taken from the empty text is undefined, which equals no text. *)
(***************************************************************************)
\* open[open.length - 1], as a text of one character, or the empty text
\* for undefined
LastOf(open) == IF open = <<>> THEN <<>> ELSE <<open[Len(open)]>>

FirstOf(open) == IF open = <<>> THEN <<>> ELSE <<open[1]>>

\* the switch (close) of validPair on the character openBracket
PairSwitch(openBracket, close) ==
    IF close = <<")">> THEN openBracket = <<"(">>
    ELSE IF close = <<"]">> THEN openBracket = <<"[">>
    ELSE IF close = <<"}">> THEN openBracket = <<"{">>
    ELSE IF close = <<Quote>> THEN openBracket = <<Quote>>
    ELSE FALSE

validPair_firstChar(open, close) == PairSwitch(FirstOf(open), close)

validPair(open, close) == PairSwitch(LastOf(open), close)

\* open.endsWith(suffix)
endsWith(open, suffix) ==
    /\ Len(suffix) <= Len(open)
    /\ SubSeq(open, Len(open) - Len(suffix) + 1, Len(open)) = suffix

\* validPair of the debugger's copy of the lexer
validPairDebugger(open, close) ==
    IF close = <<")">> THEN endsWith(open, <<"(">>)
    ELSE IF close = <<"]">> THEN endsWith(open, <<"[">>)
    ELSE IF close = <<"}">> THEN endsWith(open, <<"{">>)
    ELSE IF close = <<Quote>> THEN endsWith(open, <<Quote>>)
    ELSE FALSE

(***************************************************************************)
(* The Scanner.                                                            *)
(***************************************************************************)
\* the length cap the Scanner was constructed with: above every line here
maxLength == 20000

\* no currentReaderToken (undefined)
Undefined == 0

VARIABLES
    heap,          \* the ScannerState objects: [inString, currentReaderToken]
    readerTokens,  \* the lexer tokens held as currentReaderToken: [raw, offset]
    state,         \* state[k]: the ScannerState that Scanner k retains
    hist,          \* the processLine calls made so far, each with its line,
                   \* the state passed (arg) and its value before and after
                   \* the call, the tokens returned, the lexer tokens that
                   \* were scanned and the value of this.state at the return
    active,        \* the processLine call that is running, or NoCall
    probe,         \* a function applied on its own: its inputs and result
    debugger       \* the debug adapter, the debug sessions of the editor and
                   \* the stored debug response, or NoDebugger

vars == <<heap, readerTokens, state, hist, active, probe, debugger>>

NoCall == [running |-> FALSE]
NoProbe == [op |-> "none"]
NoDebugger == [loaded |-> FALSE]

\* tk.raw.match(/[~`'@#]*"$/)
EndsWithQuote(raw) == Len(raw) > 0 /\ raw[Len(raw)] = Quote

\* the value of a ScannerState object with the reader token t
SnapshotOf(inStr, t, r) ==
    [inString |-> inStr,
     pending |-> t # Undefined,
     raw |-> IF t # Undefined THEN r[t].raw ELSE <<>>,
     offset |-> IF t # Undefined THEN r[t].offset ELSE 0]

\* the value of the ScannerState object s, its reader token included
Snapshot(h, r, s) == SnapshotOf(h[s].inString, h[s].currentReaderToken, r)

\* tks.push({ ...tk, state: this.state }); `stamp` keeps the value that the
\* state had at this moment
Push(c, tk) ==
    [c EXCEPT !.tks =
        Append(@, [type |-> tk.type, raw |-> tk.raw, offset |-> tk.offset,
                   state |-> c.state,
                   stamp |-> Snapshot(c.heap, c.readerTokens, c.state)])]

SwitchGrammar_sameState(c, b, oldpos) ==
    [c EXCEPT !.lex = IF b THEN "inString" ELSE "toplevel", !.position = oldpos]

\* case "open" / case "close": this.state = { ...this.state, inString: b };
\* lex = grammar.lex(line, this.maxLength); lex.position = oldpos
SwitchGrammar(c, b, oldpos) ==
    [c EXCEPT !.heap = Append(@, [c.heap[c.state] EXCEPT !.inString = b]),
              !.state = Len(c.heap) + 1,
              !.lex = IF b THEN "inString" ELSE "toplevel",
              !.position = oldpos]

StoreReader_dropped(c, tk, oldpos) == [c EXCEPT !.position = oldpos]

\* this.state.currentReaderToken = tk; continue
StoreReader(c, tk, oldpos) ==
    [c EXCEPT !.readerTokens = Append(@, [raw |-> tk.raw, offset |-> tk.offset]),
              !.heap[c.state].currentReaderToken = Len(c.readerTokens) + 1,
              !.position = oldpos]

\* this.state.currentReaderToken.raw += tk.raw; continue
AbsorbIntoReader(c, tk, oldpos) ==
    [c EXCEPT !.readerTokens[c.heap[c.state].currentReaderToken].raw = @ \o tk.raw,
              !.position = oldpos]

\* tk.offset = ...currentReaderToken.offset; tk.raw = ...raw + '\n' + tk.raw
Merged(tk, t) ==
    [tk EXCEPT !.offset = t.offset, !.raw = t.raw \o <<Newline>> \o tk.raw]

\* the merge; this.state.currentReaderToken = undefined; then the push
MergeWithReader(c, tk, oldpos) ==
    Push([c EXCEPT !.heap[c.state].currentReaderToken = Undefined,
                   !.position = oldpos],
         Merged(tk, c.readerTokens[c.heap[c.state].currentReaderToken]))

Dispatch_pushFirst(c, tk, oldpos) ==
    IF EndsWithQuote(tk.raw)
    THEN IF tk.type = "open" THEN SwitchGrammar(Push(c, tk), TRUE, oldpos)
         ELSE IF tk.type = "close" THEN SwitchGrammar(Push(c, tk), FALSE, oldpos)
         ELSE Push([c EXCEPT !.position = oldpos], tk)
    ELSE IF tk.type = "reader" THEN StoreReader(c, tk, oldpos)
    ELSE IF c.heap[c.state].currentReaderToken # Undefined
    THEN IF tk.type \in {"ws", "comment"}
         THEN AbsorbIntoReader(c, tk, oldpos)
         ELSE MergeWithReader(c, tk, oldpos)
    ELSE Push([c EXCEPT !.position = oldpos], tk)

Dispatch_quoteCloses(c, tk, oldpos) ==
    IF EndsWithQuote(tk.raw)
    THEN IF tk.type = "open" THEN Push(SwitchGrammar(c, TRUE, oldpos), tk)
         ELSE Push(SwitchGrammar(c, FALSE, oldpos), tk)
    ELSE IF tk.type = "reader" THEN StoreReader(c, tk, oldpos)
    ELSE IF c.heap[c.state].currentReaderToken # Undefined
    THEN IF tk.type \in {"ws", "comment"}
         THEN AbsorbIntoReader(c, tk, oldpos)
         ELSE MergeWithReader(c, tk, oldpos)
    ELSE Push([c EXCEPT !.position = oldpos], tk)

\* the body of if (tk) { ... } for the token tk, which ended at oldpos
Dispatch(c, tk, oldpos) ==
    IF EndsWithQuote(tk.raw)
    THEN IF tk.type = "open" THEN Push(SwitchGrammar(c, TRUE, oldpos), tk)
         ELSE IF tk.type = "close" THEN Push(SwitchGrammar(c, FALSE, oldpos), tk)
         ELSE Push([c EXCEPT !.position = oldpos], tk)
    ELSE IF tk.type = "reader" THEN StoreReader(c, tk, oldpos)
    ELSE IF c.heap[c.state].currentReaderToken # Undefined
    THEN IF tk.type \in {"ws", "comment"}
         THEN AbsorbIntoReader(c, tk, oldpos)
         ELSE MergeWithReader(c, tk, oldpos)
    ELSE Push([c EXCEPT !.position = oldpos], tk)

\* one round of the do-while loop for the token tk; `scanned` keeps the
\* tokens the lexer gave
Step(c, tk) ==
    Dispatch([c EXCEPT !.scanned = Append(@, tk)], tk, tk.offset + Len(tk.raw))

RECURSIVE Loop(_, _)
\* if (tk) { ... } while (tk)
Round(line, c, tk) ==
    IF tk = NoToken THEN c ELSE Loop(line, Step(c, tk))

\* do { tk = lex.scan(); ... } while (tk)
Loop(line, c) == Round(line, c, scan(c.lex, line, c.position, maxLength))

Eol_afterNewline(line, c) ==
    Push(c, [type |-> "eol", raw |-> <<Newline>>, offset |-> Len(line) + 1])

\* the sentinel: tks.push({ type: "eol", raw: "\n", offset: line.length,
\*                          state: this.state })
Eol(line, c) ==
    Push(c, [type |-> "eol", raw |-> <<Newline>>, offset |-> Len(line)])

Run_toplevel(h, r, line, s) ==
    Eol(line, Loop(line, [heap |-> h, readerTokens |-> r, state |-> s,
                          lex |-> "toplevel",
                          position |-> 0, tks |-> <<>>, scanned |-> <<>>]))

\* the body of processLine(line, s) on the objects h, r
Run(h, r, line, s) ==
    Eol(line, Loop(line, [heap |-> h, readerTokens |-> r, state |-> s,
                          lex |-> IF h[s].inString THEN "inString" ELSE "toplevel",
                          position |-> 0, tks |-> <<>>, scanned |-> <<>>]))

(***************************************************************************)
(* The lines the callers pass.                                             *)
(***************************************************************************)
Alphabet == {"#", "a", Quote, " "}

SampleLines ==
    { <<"(", "p", "r", "i", "n", "t", "l", "n", " ", Quote, "h", "e", "l", "l", "o">>,
      <<"w", "o", "r", "l", "d", Quote, ")">>,
      <<"#", "i", "n", "s", "t">>,
      <<Quote, "2", "0", "2", "0", "-", "0", "1", "-", "0", "1", Quote>>,
      <<"#", "a">>,
      <<"a", " ", "#", "a">>,
      <<";", "a">>,
      <<",">>,
      <<Backslash>>,
      <<"#", "a", " ", Backslash, Quote, " ", Quote>>,
      <<"#", "a", " ", "1">>,
      <<Backslash, Quote>>,
      <<Quote, "a", " ", "b", Quote, ")">>,
      <<"#", "a", " ", ";", Quote>> }

Lines ==
    {<<>>} \cup {<<c>> : c \in Alphabet} \cup SampleLines

(***************************************************************************)
(* The state machine: one Scanner, whose callers call processLine with or  *)
(* without a state.  A state they pass is one they captured at a line      *)
(* boundary: the state a Scanner started with, the state on the eol token  *)
(* of an earlier call, or the state a Scanner retains.                     *)
(***************************************************************************)
\* state: ScannerState = { inString: false, currentReaderToken: undefined }
InitialState == [inString |-> FALSE, currentReaderToken |-> Undefined]

Init ==
    /\ heap = <<InitialState>>
    /\ readerTokens = <<>>
    /\ state = <<1>>
    /\ hist = <<>>
    /\ active = NoCall
    /\ probe = NoProbe
    /\ debugger = NoDebugger

Return_stateKept(k, line, s, explicit, c) ==
    /\ heap' = c.heap
    /\ readerTokens' = c.readerTokens
    /\ hist' = Append(hist, [scanner |-> k, line |-> line,
                             explicit |-> explicit, arg |-> s,
                             before |-> Snapshot(heap, readerTokens, s),
                             after |-> Snapshot(c.heap, c.readerTokens, s),
                             final |-> Snapshot(c.heap, c.readerTokens, c.state),
                             tokens |-> c.tks, scanned |-> c.scanned])
    /\ active' = NoCall
    /\ UNCHANGED <<state, probe, debugger>>

\* the effect of a call that ended with the objects and the tokens of c
Return(k, line, s, explicit, c) ==
    /\ heap' = c.heap
    /\ readerTokens' = c.readerTokens
    /\ state' = [state EXCEPT ![k] = c.state]
    /\ hist' = Append(hist, [scanner |-> k, line |-> line,
                             explicit |-> explicit, arg |-> s,
                             before |-> Snapshot(heap, readerTokens, s),
                             after |-> Snapshot(c.heap, c.readerTokens, s),
                             final |-> Snapshot(c.heap, c.readerTokens, c.state),
                             tokens |-> c.tks, scanned |-> c.scanned])
    /\ active' = NoCall
    /\ UNCHANGED <<probe, debugger>>

Call(k, line, s, explicit) ==
    /\ Len(hist) < MaxCalls
    /\ Return(k, line, s, explicit, Run(heap, readerTokens, line, s))

\* scanner.processLine(line)
processLineDefault_fresh ==
    \E k \in DOMAIN state, line \in Lines : Call(k, line, 1, FALSE)

processLineDefault ==
    \E k \in DOMAIN state, line \in Lines : Call(k, line, state[k], FALSE)

\* the states the callers hold
Captured ==
    DOMAIN state
      \cup {state[k] : k \in DOMAIN state}
      \cup {hist[n].tokens[Len(hist[n].tokens)].state : n \in DOMAIN hist}

\* scanner.processLine(line, s)
processLine ==
    \E k \in DOMAIN state, line \in Lines, s \in Captured :
        Call(k, line, s, TRUE)

Next == processLineDefault \/ processLine

Spec == Init /\ [][Next]_vars

(***************************************************************************)
(* Views of a call's result.                                               *)
(***************************************************************************)
RECURSIVE ConcatRaws(_)
ConcatRaws(tks) ==
    IF tks = <<>> THEN <<>> ELSE Head(tks).raw \o ConcatRaws(Tail(tks))

\* kind, raw and offset of every token
View(tks) ==
    [i \in DOMAIN tks |-> <<tks[i].type, tks[i].raw, tks[i].offset>>]

\* kind, raw, offset and the state value stamped at the emission
FullView(tks) ==
    [i \in DOMAIN tks |-> <<tks[i].type, tks[i].raw, tks[i].offset, tks[i].stamp>>]

Contiguous(tks) ==
    \A i \in 2..Len(tks) : tks[i].offset = tks[i - 1].offset + Len(tks[i - 1].raw)

EolToken(call) == call.tokens[Len(call.tokens)]

(***************************************************************************)
(* The functions applied on their own: validPair on the texts of a token   *)
(* and of a closing token, and the tokenizing of one line from the initial *)
(* state of a Scanner.                                                     *)
(***************************************************************************)
PairChars == {"(", ")", "[", "]", "{", "}", Quote, "'", "a"}

Texts(n) == UNION {[1..m -> PairChars] : m \in 0..n}

PairInputs ==
    [op : {"validPair", "validPairDebugger"}, open : Texts(MaxOpenLen),
     close : Texts(1), done : {FALSE}, result : {FALSE}]

\* the lines with one of the words true, false, nil after a cluster of
\* prefix characters, between delimiters
Words == { <<"t", "r", "u", "e">>, <<"f", "a", "l", "s", "e">>, <<"n", "i", "l">> }

Clusters ==
    { <<>>, <<"'">>, <<Backtick>>, <<"~">>, <<"#">>, <<"@">>, <<"^">>,
      <<"'", " ">>, <<"~", "'">> }

Before == { <<>>, <<"(">>, <<" ">> }

After == { <<>>, <<")">>, <<" ", "a">> }

WordInputs ==
    [op : {"tokenize"}, before : Before, cluster : Clusters, word : Words,
     after : After, done : {FALSE}, result : {<<>>}]

WordLine(in) == in.before \o in.cluster \o in.word \o in.after

InitPure ==
    /\ heap = <<InitialState>>
    /\ readerTokens = <<>>
    /\ state = <<1>>
    /\ hist = <<>>
    /\ active = NoCall
    /\ probe \in PairInputs \cup WordInputs
    /\ debugger = NoDebugger

Applied(result) ==
    /\ ~probe.done
    /\ probe' = [probe EXCEPT !.done = TRUE, !.result = result]
    /\ UNCHANGED <<heap, readerTokens, state, hist, active, debugger>>

applyValidPair ==
    /\ probe.op = "validPair"
    /\ Applied(validPair(probe.open, probe.close))

applyValidPairDebugger ==
    /\ probe.op = "validPairDebugger"
    /\ Applied(validPairDebugger(probe.open, probe.close))

\* new Scanner(maxLength).processLine(line)
applyTokenize ==
    /\ probe.op = "tokenize"
    /\ Applied(View(Run(heap, readerTokens, WordLine(probe), state[1]).tks))

NextPure == applyValidPair \/ applyValidPairDebugger \/ applyTokenize

SpecPure == InitPure /\ [][NextPure]_vars

(***************************************************************************)
(* Two Scanner instances, each tokenizing the lines of its own document:   *)
(* a Scanner is called without a state, or with a state it holds itself    *)
(* (the state it started with, the state it retains, or the state of a     *)
(* token one of its own calls returned).                                   *)
(***************************************************************************)
Scanners_shared == <<1, 1>>

\* the state objects of new Scanner(maxLength), new Scanner(maxLength):
\* the initializer of the field state runs once for each instance
Scanners == <<1, 2>>

DocLines == { <<>>, <<"a">>, <<"#", "a">>, <<Quote, "a">>, <<"a", Quote>> }

InitDocs ==
    /\ heap = <<InitialState, InitialState>>
    /\ readerTokens = <<>>
    /\ state = Scanners
    /\ hist = <<>>
    /\ active = NoCall
    /\ probe = NoProbe
    /\ debugger = NoDebugger

\* the states that Scanner k's document holds
OwnCalls(k) == {n \in DOMAIN hist : hist[n].scanner = k}

StatesOf(tks) == {tks[t].state : t \in DOMAIN tks}

Own(k) ==
    {Scanners[k], state[k]} \cup UNION {StatesOf(hist[n].tokens) : n \in OwnCalls(k)}

\* scanner k: processLine(line)
documentLine ==
    \E k \in DOMAIN Scanners, line \in DocLines : Call(k, line, state[k], FALSE)

\* scanner k: processLine(line, s)
documentLineFrom ==
    \E k \in DOMAIN Scanners, line \in DocLines :
        \E s \in Own(k) : Call(k, line, s, TRUE)

NextDocs == documentLine \/ documentLineFrom

SpecDocs == InitDocs /\ [][NextDocs]_vars

(***************************************************************************)
(* processLine step by step: the call starts, every round of its loop      *)
(* scans one token and handles it, and when the lexer gives no token the   *)
(* loop ends, the sentinel is pushed and the call returns.  The call works on its own     *)
(* view of the objects (active.c), which the return makes visible: no      *)
(* other code runs while a call is running.                                *)
(***************************************************************************)
StepLines ==
    { <<>>, <<" ">>, <<")">>, <<Quote, "a">>, <<"#">>, <<"a", " ", "#">>,
      <<Backslash>>, <<"#", "a">> }

LoopEnds_never(tk) == FALSE

\* while (tk)
LoopEnds(tk) == tk = NoToken

\* processLine(line, s) is called: let tks = []; this.state = state; lex = ...
beginLine ==
    /\ active = NoCall
    /\ Len(hist) < MaxCalls
    /\ \E line \in StepLines, s \in Captured :
          active' = [running |-> TRUE, line |-> line, arg |-> s,
                     pc |-> "scan", tk |-> NoToken,
                     c |-> [heap |-> heap, readerTokens |-> readerTokens,
                            state |-> s,
                            lex |-> IF heap[s].inString THEN "inString"
                                                        ELSE "toplevel",
                            position |-> 0, tks |-> <<>>, scanned |-> <<>>]]
    /\ UNCHANGED <<heap, readerTokens, state, hist, probe, debugger>>

\* tk = lex.scan()
scanNext ==
    /\ active.running
    /\ active.pc = "scan"
    /\ active' = [active EXCEPT
                    !.tk = scan(active.c.lex, active.line, active.c.position,
                                maxLength),
                    !.pc = "body"]
    /\ UNCHANGED <<heap, readerTokens, state, hist, probe, debugger>>

\* if (tk) { ... }, and the loop goes on
scanToken ==
    /\ active.running
    /\ active.pc = "body"
    /\ active.tk # NoToken
    /\ active' = [active EXCEPT !.c = Step(@, active.tk), !.pc = "scan"]
    /\ UNCHANGED <<heap, readerTokens, state, hist, probe, debugger>>

\* no token: the loop ends, the sentinel is pushed and the call returns
endOfLine ==
    /\ active.running
    /\ active.pc = "body"
    /\ LoopEnds(active.tk)
    /\ Return(1, active.line, active.arg, TRUE, Eol(active.line, active.c))

NextSteps == beginLine \/ scanNext \/ scanToken \/ endOfLine

\* a call that has started runs on: nothing suspends synchronous code
SpecSteps ==
    Init /\ [][NextSteps]_vars /\ WF_vars(scanNext \/ scanToken \/ endOfLine)

(***************************************************************************)
(* C1 as stated: in every call the raws of the returned tokens, the eol    *)
(* sentinel included, concatenate to the line followed by one newline, and *)
(* every token starts where the previous one ended.                        *)
(***************************************************************************)
C1_FullCoverage ==
    \A n \in DOMAIN hist :
        /\ ConcatRaws(hist[n].tokens) = hist[n].line \o <<Newline>>
        /\ Contiguous(hist[n].tokens)

(***************************************************************************)
(* C2 as stated: a line that is tokenized again by processLine(line, s)    *)
(* with the captured state s that its first tokenization started from (the *)
(* initial state, or the state on the eol token of the line before) gives  *)
(* the same tokens (kinds, raws, offsets, states) as it gave before.       *)
(***************************************************************************)
C2_Repeatable ==
    \A i \in DOMAIN hist : \A j \in DOMAIN hist :
        ( /\ i < j
          /\ hist[i].line = hist[j].line
          /\ hist[j].explicit
          /\ hist[i].arg = hist[j].arg
          /\ i = 1 \/ hist[i].arg = EolToken(hist[i - 1]).state )
        => FullView(hist[i].tokens) = FullView(hist[j].tokens)

(***************************************************************************)
(* C3: a processLine call without a state, made right after another call   *)
(* on the same Scanner, returns the tokens (kinds, raws, offsets) that the *)
(* call with the state stamped on the eol token of that other call, passed *)
(* as the state argument, returns.                                         *)
(***************************************************************************)
C3_Resumable ==
    [][ ( /\ hist # <<>>
          /\ Len(hist') = Len(hist) + 1
          /\ ~hist'[Len(hist')].explicit
          /\ hist'[Len(hist')].scanner = hist[Len(hist)].scanner )
        => View(hist'[Len(hist')].tokens)
             = View(Run(heap, readerTokens, hist'[Len(hist')].line,
                        EolToken(hist[Len(hist)]).state).tks) ]_vars

\* the second line was tokenized from the retained state, after a first
\* line that left the scanner inside a string or with a pending reader tag
C3_Witness ==
    /\ Len(hist) >= 2
    /\ ~hist[2].explicit
    /\ hist[1].final.inString \/ hist[1].final.pending
    /\ Len(hist[2].tokens) >= 2

(***************************************************************************)
(* C4 as stated: the state object passed to processLine has, after the     *)
(* call, the value it had before the call (inString flag, pending reader   *)
(* token, that token's raw and offset).                                    *)
(***************************************************************************)
C4_PureInState ==
    \A n \in DOMAIN hist : hist[n].explicit => hist[n].after = hist[n].before

(***************************************************************************)
(* C5 as stated: the state of every token returned so far still has the    *)
(* value (inString flag, pending reader token) it had when the token was   *)
(* emitted.                                                                *)
(***************************************************************************)
C5_StampIsSnapshot ==
    \A n \in DOMAIN hist : \A i \in DOMAIN hist[n].tokens :
        Snapshot(heap, readerTokens, hist[n].tokens[i].state)
            = hist[n].tokens[i].stamp

(***************************************************************************)
(* C6 as stated: neither the state a Scanner retains nor the state of any  *)
(* returned token has inString = true together with a pending reader       *)
(* token.                                                                  *)
(***************************************************************************)
Exclusive(s) == ~(heap[s].inString /\ heap[s].currentReaderToken # Undefined)

C6_MutuallyExclusive ==
    /\ \A k \in DOMAIN state : Exclusive(state[k])
    /\ \A n \in DOMAIN hist : \A i \in DOMAIN hist[n].tokens :
           /\ Exclusive(hist[n].tokens[i].state)
           /\ ~(hist[n].tokens[i].stamp.inString /\ hist[n].tokens[i].stamp.pending)

(***************************************************************************)
(* C7 as stated: the line #inst and then the line "2020-01-01", tokenized  *)
(* from the state the first line left, give for the second line one merged *)
(* token with the raw #inst + newline + "2020-01-01" at the offset of      *)
(* #inst in the first line.                                                *)
(***************************************************************************)
InstLine == <<"#", "i", "n", "s", "t">>
DateLine == <<Quote, "2", "0", "2", "0", "-", "0", "1", "-", "0", "1", Quote>>

C7_ReaderTagMerge ==
    \A n \in DOMAIN hist :
        ( /\ n > 1
          /\ hist[n - 1].line = InstLine
          /\ ~hist[n - 1].before.inString /\ ~hist[n - 1].before.pending
          /\ hist[n].line = DateLine
          /\ hist[n].arg = EolToken(hist[n - 1]).state )
        => /\ Len(hist[n].tokens) = 2
           /\ hist[n].tokens[1].raw = InstLine \o <<Newline>> \o DateLine
           /\ hist[n].tokens[1].offset = 0

(***************************************************************************)
(* C8 as stated: whenever a reader tag is pending (it was pending when the *)
(* call started, or the line has a reader tag), the first token scanned    *)
(* after it that is neither whitespace nor a comment is returned as one    *)
(* token with the raw of the pending token (the whitespace and comments in *)
(* between appended) + newline + its own raw, at the pending token's       *)
(* offset, and no reader token is pending after it.                        *)
(***************************************************************************)
Absorbable(tk) == tk.type \in {"ws", "comment"}

\* index 0 stands for the reader token that was pending when the call started
PendingRaw(call, i) == IF i = 0 THEN call.before.raw ELSE call.scanned[i].raw
PendingOffset(call, i) ==
    IF i = 0 THEN call.before.offset ELSE call.scanned[i].offset

C8_FirstTokenMerges ==
    \A n \in DOMAIN hist :
        LET call == hist[n]
        IN  \A i \in 0..Len(call.scanned) :
              \A j \in (i + 1)..Len(call.scanned) :
                ( /\ IF i = 0 THEN call.before.pending
                              ELSE call.scanned[i].type = "reader"
                  /\ ~Absorbable(call.scanned[j])
                  /\ \A m \in (i + 1)..(j - 1) : Absorbable(call.scanned[m]) )
                => \E t \in DOMAIN call.tokens :
                     /\ call.tokens[t].type = call.scanned[j].type
                     /\ call.tokens[t].offset = PendingOffset(call, i)
                     /\ call.tokens[t].raw =
                            PendingRaw(call, i)
                              \o ConcatRaws(SubSeq(call.scanned, i + 1, j - 1))
                              \o <<Newline>> \o call.scanned[j].raw
                     /\ ~call.tokens[t].stamp.pending

(***************************************************************************)
(* C9: no returned token is a reader tag; when the last token of a line    *)
(* that is neither whitespace nor a comment is a reader tag, the state at  *)
(* the return holds it as the pending reader token (its raw starts with    *)
(* the tag, at the tag's offset); and a call that starts with a pending    *)
(* reader token and scans nothing but whitespace and comments leaves that  *)
(* token pending and returns no merged token: it returns only tokens as    *)
(* the lexer gave them, and the sentinel.                                  *)
(***************************************************************************)
EndsWithReader(call, i) ==
    /\ call.scanned[i].type = "reader"
    /\ \A m \in (i + 1)..Len(call.scanned) : Absorbable(call.scanned[m])

OnlyAbsorbable(call) ==
    \A m \in DOMAIN call.scanned : Absorbable(call.scanned[m])

StartsWith(raw, prefix) ==
    Len(prefix) <= Len(raw) /\ SubSeq(raw, 1, Len(prefix)) = prefix

AsScanned(call, t) ==
    \E m \in DOMAIN call.scanned :
        <<call.scanned[m].type, call.scanned[m].raw, call.scanned[m].offset>>
            = View(call.tokens)[t]

C9_ReaderNeverAlone ==
    \A n \in DOMAIN hist :
        LET call == hist[n]
        IN  /\ \A t \in DOMAIN call.tokens : call.tokens[t].type # "reader"
            /\ \A i \in DOMAIN call.scanned :
                 EndsWithReader(call, i) =>
                    /\ call.final.pending
                    /\ call.final.offset = call.scanned[i].offset
                    /\ StartsWith(call.final.raw, call.scanned[i].raw)
            /\ (call.before.pending /\ OnlyAbsorbable(call)) =>
                    /\ \A t \in 1..(Len(call.tokens) - 1) : AsScanned(call, t)
                    /\ EolToken(call).type = "eol"
                    /\ call.final.pending
                    /\ call.final.offset = call.before.offset
                    /\ StartsWith(call.final.raw, call.before.raw)

\* a line ended with a reader tag, and the next call, from the state that
\* line left, scanned whitespace only and kept it pending
C9_Witness ==
    \E n \in DOMAIN hist :
        /\ n > 1
        /\ \E i \in DOMAIN hist[n - 1].scanned : EndsWithReader(hist[n - 1], i)
        /\ hist[n].arg = EolToken(hist[n - 1]).state
        /\ hist[n].scanned # <<>> /\ OnlyAbsorbable(hist[n])
        /\ hist[n].final.pending

(***************************************************************************)
(* C10: a call that starts with inString = false and scans a string-       *)
(* opening token with no closing quote token after it returns with         *)
(* inString = true; and the line (println "hello followed by the line      *)
(* world") leaves inString = true after the first and inString = false     *)
(* after the second, with hello and world returned as str-inside tokens.   *)
(***************************************************************************)
PrintlnLine ==
    <<"(", "p", "r", "i", "n", "t", "l", "n", " ", Quote, "h", "e", "l", "l", "o">>
WorldLine == <<"w", "o", "r", "l", "d", Quote, ")">>

OpensString(tk) == tk.type = "open" /\ EndsWithQuote(tk.raw)
ClosesString(tk) == tk.type = "close" /\ EndsWithQuote(tk.raw)

HasToken(call, type, raw) ==
    \E t \in DOMAIN call.tokens :
        call.tokens[t].type = type /\ call.tokens[t].raw = raw

C10_StringSpanning ==
    \A n \in DOMAIN hist :
        /\ ( /\ ~hist[n].before.inString
             /\ \E i \in DOMAIN hist[n].scanned :
                  /\ OpensString(hist[n].scanned[i])
                  /\ \A m \in (i + 1)..Len(hist[n].scanned) :
                         ~ClosesString(hist[n].scanned[m]) )
           => hist[n].final.inString
        /\ ( /\ n > 1
             /\ hist[n - 1].line = PrintlnLine
             /\ ~hist[n - 1].before.inString
             /\ hist[n].line = WorldLine
             /\ hist[n].arg = EolToken(hist[n - 1]).state )
           => /\ hist[n - 1].final.inString
              /\ ~hist[n].final.inString
              /\ HasToken(hist[n - 1], "str-inside", <<"h", "e", "l", "l", "o">>)
              /\ HasToken(hist[n], "str-inside", <<"w", "o", "r", "l", "d">>)

\* the two lines of the example were tokenized one after the other
C10_Witness ==
    /\ Len(hist) >= 2
    /\ hist[1].line = PrintlnLine
    /\ hist[2].line = WorldLine
    /\ hist[2].arg = EolToken(hist[1]).state
    /\ hist[1].final.inString /\ ~hist[2].final.inString

(***************************************************************************)
(* C12: the token list of every call ends with an eol token, which is its  *)
(* only token of kind eol, with a raw of one newline and the offset of the *)
(* line's length; and the state of the eol token of the latest call is the *)
(* state its Scanner has after the line.                                   *)
(***************************************************************************)
C12_EolSentinel ==
    /\ \A n \in DOMAIN hist :
          LET tks == hist[n].tokens
          IN  /\ tks # <<>>
              /\ \A i \in DOMAIN tks : tks[i].type = "eol" <=> i = Len(tks)
              /\ EolToken(hist[n]).raw = <<Newline>>
              /\ EolToken(hist[n]).offset = Len(hist[n].line)
              /\ EolToken(hist[n]).stamp = hist[n].final
    /\ hist # <<>> =>
          EolToken(hist[Len(hist)]).state = state[hist[Len(hist)].scanner]

\* a call returned several tokens before the sentinel and changed the state
C12_Witness ==
    \E n \in DOMAIN hist :
        /\ Len(hist[n].tokens) >= 3
        /\ hist[n].final # hist[n].before
        /\ hist[n].line # <<>>

(***************************************************************************)
(* C16: after a call, with or without a state argument, the state that the *)
(* Scanner retains is the state of the eol token the call returned; a      *)
(* following call without a state argument starts from that state, with    *)
(* the value the previous call left.                                       *)
(***************************************************************************)
C16_RetainedIsFinal ==
    /\ hist # <<>> =>
          LET last == hist[Len(hist)]
          IN  /\ state[last.scanner] = EolToken(last).state
              /\ Snapshot(heap, readerTokens, state[last.scanner]) = last.final
    /\ \A n \in DOMAIN hist :
          (n > 1 /\ ~hist[n].explicit /\ hist[n].scanner = hist[n - 1].scanner) =>
              /\ hist[n].arg = EolToken(hist[n - 1]).state
              /\ hist[n].before = hist[n - 1].final

\* a call with a state argument opened a string, so it ended with a new
\* state object, and the next call had no state argument
C16_Witness ==
    /\ Len(hist) >= 2
    /\ hist[1].explicit /\ ~hist[2].explicit
    /\ EolToken(hist[1]).state # hist[1].arg
    /\ hist[1].final.inString

(***************************************************************************)
(* C15: a call that starts with inString = true on a line with no          *)
(* unescaped double quote (a backslash escapes the character after it)     *)
(* ends with inString = true; and a call that starts with inString = true  *)
(* and ends with inString = false scanned a closing quote token that the   *)
(* inString grammar gives at its offset; the state object that the call    *)
(* started from keeps inString = true.                                     *)
(***************************************************************************)
RECURSIVE UnescapedQuoteFrom(_, _)
UnescapedQuoteFrom(line, p) ==
    IF p >= Len(line) THEN FALSE
    ELSE IF At(line, p) = Backslash THEN UnescapedQuoteFrom(line, p + 2)
    ELSE IF At(line, p) = Quote THEN TRUE
    ELSE UnescapedQuoteFrom(line, p + 1)

ClosedByStringGrammar(c) ==
    \E i \in DOMAIN c.scanned :
        /\ ClosesString(c.scanned[i])
        /\ scan("inString", c.line, c.scanned[i].offset, maxLength) = c.scanned[i]

C15_StringPersists ==
    \A n \in DOMAIN hist :
        hist[n].before.inString =>
            /\ ~UnescapedQuoteFrom(hist[n].line, 0) => hist[n].final.inString
            /\ ~hist[n].final.inString => ClosedByStringGrammar(hist[n])
            /\ hist[n].after.inString

\* inside a string, a line with an escaped quote was tokenized and the
\* string stayed open
C15_Witness ==
    \E n \in DOMAIN hist :
        /\ hist[n].before.inString
        /\ \E i \in DOMAIN hist[n].line : hist[n].line[i] = Quote
        /\ ~UnescapedQuoteFrom(hist[n].line, 0)
        /\ hist[n].final.inString

(***************************************************************************)
(* C18 as stated: at every position before the end of a line, the toplevel *)
(* grammar and the inString grammar each have a rule that matches, and the *)
(* scanning of a call stops only at the end of the line.                   *)
(***************************************************************************)
\* the offset at which the scanning of the call's line stopped
ScannedEnd(c) ==
    IF c.scanned = <<>> THEN 0
    ELSE c.scanned[Len(c.scanned)].offset + Len(c.scanned[Len(c.scanned)].raw)

C18_AlwaysMatches ==
    \A n \in DOMAIN hist :
        /\ \A p \in 0..(Len(hist[n].line) - 1) :
              /\ scan("toplevel", hist[n].line, p, maxLength) # NoToken
              /\ scan("inString", hist[n].line, p, maxLength) # NoToken
        /\ ScannedEnd(hist[n]) = Len(hist[n].line)

(***************************************************************************)
(* C19 as stated: when a reader tag is pending (it was pending when the    *)
(* call started, or the line has a reader tag) and only whitespace and     *)
(* comment tokens are scanned after it, none of these is returned as a     *)
(* token of its own, and when the line ends there the reader token is      *)
(* still pending with all of them appended to its raw.                     *)
(***************************************************************************)
Returned(c, tk) ==
    \E t \in DOMAIN c.tokens :
        /\ c.tokens[t].type = tk.type
        /\ c.tokens[t].raw = tk.raw
        /\ c.tokens[t].offset = tk.offset

C19_AbsorbedWhilePending ==
    \A n \in DOMAIN hist :
        \A i \in 0..Len(hist[n].scanned) :
          \A j \in (i + 1)..Len(hist[n].scanned) :
            ( /\ IF i = 0 THEN hist[n].before.pending
                          ELSE hist[n].scanned[i].type = "reader"
              /\ \A m \in (i + 1)..j : Absorbable(hist[n].scanned[m]) )
            => /\ ~Returned(hist[n], hist[n].scanned[j])
               /\ j = Len(hist[n].scanned) =>
                     /\ hist[n].final.pending
                     /\ hist[n].final.raw =
                            PendingRaw(hist[n], i)
                              \o ConcatRaws(SubSeq(hist[n].scanned, i + 1, j))

(***************************************************************************)
(* C20: when a call scans a string-opening token and, after it, a closing  *)
(* quote token, the opening token is returned with a state that has        *)
(* inString = true; every token scanned between the two is the token the   *)
(* inString grammar gives at its offset, and the tokens returned between   *)
(* them have a state with inString = true; the closing token is returned   *)
(* with a state that has inString = false; and the token scanned after it  *)
(* is the token the toplevel grammar gives at the offset right after the   *)
(* quote.                                                                  *)
(***************************************************************************)
\* the index in the returned list of the quote token tk, which is returned
\* as the lexer gave it
IndexOf(c, tk) ==
    CHOOSE t \in DOMAIN c.tokens :
        c.tokens[t].type = tk.type /\ c.tokens[t].offset = tk.offset

InStringNow(tk) == tk.stamp.inString /\ heap[tk.state].inString

OutOfStringNow(tk) == ~tk.stamp.inString /\ ~heap[tk.state].inString

\* scanned[i] opens a string and scanned[j] is the first quote token after it
StringSpan(c, i, j) ==
    /\ i < j
    /\ OpensString(c.scanned[i])
    /\ ClosesString(c.scanned[j])
    /\ \A m \in (i + 1)..(j - 1) : ~ClosesString(c.scanned[m])

C20_StringOnOneLine ==
    \A n \in DOMAIN hist :
        \A i \in DOMAIN hist[n].scanned : \A j \in DOMAIN hist[n].scanned :
            StringSpan(hist[n], i, j) =>
                LET c == hist[n]
                    open == c.scanned[i]
                    close == c.scanned[j]
                IN  /\ Returned(c, open) /\ Returned(c, close)
                    /\ InStringNow(c.tokens[IndexOf(c, open)])
                    /\ \A m \in (i + 1)..(j - 1) :
                          c.scanned[m] =
                              scan("inString", c.line, c.scanned[m].offset, maxLength)
                    /\ \A t \in (IndexOf(c, open) + 1)..(IndexOf(c, close) - 1) :
                          InStringNow(c.tokens[t])
                    /\ OutOfStringNow(c.tokens[IndexOf(c, close)])
                    /\ close.offset = c.scanned[j - 1].offset + Len(c.scanned[j - 1].raw)
                    /\ j < Len(c.scanned) =>
                          c.scanned[j + 1] =
                              scan("toplevel", c.line, close.offset + 1, maxLength)
                    /\ j = Len(c.scanned) => close.offset + 1 = Len(c.line)

\* a line with a whole string, tokens inside it and a token after it
C20_Witness ==
    \E n \in DOMAIN hist :
        \E i \in DOMAIN hist[n].scanned : \E j \in DOMAIN hist[n].scanned :
            /\ StringSpan(hist[n], i, j)
            /\ j > i + 2
            /\ j < Len(hist[n].scanned)

(***************************************************************************)
(* C13: each copy of validPair returns true exactly when open is not empty *)
(* and its last character and the character close are one of the pairs     *)
(* ( ), [ ], { }, " ".                                                     *)
(***************************************************************************)
Pairs == { <<"(", ")">>, <<"[", "]">>, <<"{", "}">>, <<Quote, Quote>> }

C13_ValidPair ==
    (probe.op \in {"validPair", "validPairDebugger"} /\ probe.done) =>
        ( probe.result <=>
            /\ probe.open # <<>>
            /\ Len(probe.close) = 1
            /\ <<probe.open[Len(probe.open)], probe.close[1]>> \in Pairs )

\* validPair accepted a token whose bracket follows a prefix character
C13_Witness ==
    /\ probe.op \in {"validPair", "validPairDebugger"}
    /\ probe.done /\ probe.result
    /\ Len(probe.open) = 2
    /\ probe.open[1] # probe.open[2]

(***************************************************************************)
(* C14 as stated: a line with one of the words true, false, nil standing   *)
(* between delimiters, with or without a cluster of prefix characters      *)
(* before it, is tokenized with the cluster and the word as one token of   *)
(* kind lit, and with no token of kind id.                                 *)
(***************************************************************************)
C14_WordsAreLiterals ==
    (probe.op = "tokenize" /\ probe.done) =>
        /\ \E t \in DOMAIN probe.result :
              probe.result[t] = <<"lit", probe.cluster \o probe.word, Len(probe.before)>>
        /\ \A t \in DOMAIN probe.result :
              probe.result[t][1] = "id" => probe.result[t][2] = <<"a">>

(***************************************************************************)
(* C17: with two Scanner instances called in any order, each call returns  *)
(* the tokens (kinds, raws, offsets, state values), and each Scanner ends  *)
(* in the state, that the Scanner's own calls give when they are run alone *)
(* on a new Scanner, with the same lines and the same choice of states.    *)
(***************************************************************************)
\* the call and token of scanner k that returned the state s, or <<0, 0>>
\* for the state the Scanner started with
TokensOf(m) == {<<m, t>> : t \in DOMAIN hist[m].tokens}

OwnRef(k, n, s) ==
    IF s = Scanners[k] THEN <<0, 0>>
    ELSE CHOOSE r \in UNION {TokensOf(m) : m \in 1..(n - 1)} :
            /\ hist[r[1]].scanner = k
            /\ hist[r[1]].tokens[r[2]].state = s

\* the state that the reference r stands for in the run alone
AloneState(alone, r) ==
    IF r = <<0, 0>> THEN 1 ELSE alone.calls[r[1]][r[2]].state

AloneAfter(alone, c) ==
    [heap |-> c.heap, readerTokens |-> c.readerTokens,
     calls |-> Append(alone.calls, c.tks), state |-> c.state]

RECURSIVE Alone(_, _)
\* the calls of scanner k among the first n calls, run on a new Scanner
AloneCall(k, n, alone) ==
    IF hist[n].scanner # k
    THEN [alone EXCEPT !.calls = Append(@, <<>>)]
    ELSE AloneAfter(alone,
             Run(alone.heap, alone.readerTokens, hist[n].line,
                 IF hist[n].explicit
                 THEN AloneState(alone, OwnRef(k, n, hist[n].arg))
                 ELSE alone.state))

Alone(k, n) ==
    IF n = 0
    THEN [heap |-> <<InitialState>>, readerTokens |-> <<>>, calls |-> <<>>,
          state |-> 1]
    ELSE AloneCall(k, n, Alone(k, n - 1))

SameAsAlone(k, alone) ==
    /\ \A n \in DOMAIN hist :
          hist[n].scanner = k => FullView(hist[n].tokens) = FullView(alone.calls[n])
    /\ Snapshot(heap, readerTokens, state[k])
          = Snapshot(alone.heap, alone.readerTokens, alone.state)

C17_Independent ==
    \A k \in DOMAIN Scanners : SameAsAlone(k, Alone(k, Len(hist)))

\* one Scanner was left with a pending reader tag, and then the other one
\* tokenized a line of its own
C17_Witness ==
    /\ Len(hist) >= 2
    /\ hist[1].scanner # hist[2].scanner
    /\ hist[1].final.pending
    /\ Len(hist[2].tokens) >= 2

(***************************************************************************)
(* C11: every processLine call that has started, on whatever line and from *)
(* whatever state, returns: its loop ends after finitely many rounds and   *)
(* the call hands back its token list.                                     *)
(***************************************************************************)
C11_Terminates == active.running ~> ~active.running

\* a call that started inside a string, on a line of one backslash, has
\* returned its tokens
C11_Witness ==
    \E n \in DOMAIN hist :
        /\ hist[n].before.inString
        /\ hist[n].line = <<Backslash>>
        /\ hist[n].tokens # <<>>
        /\ ~active.running

(***************************************************************************)
(* C21 as stated: every token a call returns while the scanner is inside a *)
(* string, from after the string-opening token up to and including the     *)
(* closing quote, has kind str-inside, ws or close.                        *)
(***************************************************************************)
\* the scanner was inside a string when it pushed token t of the call
InsideBefore(call, t) ==
    IF t = 1 THEN call.before.inString ELSE call.tokens[t - 1].stamp.inString

StringKinds == {"str-inside", "ws", "close"}

C21_OnlyStringKinds ==
    \A n \in DOMAIN hist : \A t \in DOMAIN hist[n].tokens :
        InsideBefore(hist[n], t) => hist[n].tokens[t].type \in StringKinds

(***************************************************************************)
(* C21 amended: every token a call returns while the scanner is inside a   *)
(* string has kind str-inside, ws or close, but for the eol sentinel that  *)
(* ends the token list of a line whose string is still open; no token of   *)
(* kind open, id, lit, kw, reader, comment, ignore or junk is returned     *)
(* there.                                                                  *)
(***************************************************************************)
C21_StringKindsOrEol ==
    \A n \in DOMAIN hist : \A t \in DOMAIN hist[n].tokens :
        InsideBefore(hist[n], t) =>
            \/ hist[n].tokens[t].type \in StringKinds
            \/ /\ t = Len(hist[n].tokens)
               /\ hist[n].tokens[t].type = "eol"

\* a call that started inside a string returned a word of the string, the
\* closing quote and then a token of the code grammar
C21_Witness ==
    \E n \in DOMAIN hist :
        /\ hist[n].before.inString
        /\ \E t \in DOMAIN hist[n].tokens :
              /\ t > 1
              /\ hist[n].tokens[t].type = "close"
              /\ hist[n].tokens[t - 1].type = "str-inside"
              /\ t + 1 < Len(hist[n].tokens)

(***************************************************************************)
(* The connect sequences: the defaults of each project type and the        *)
(* replConnectSequences of the configuration.                              *)
(***************************************************************************)
MaxCustom == 2
MaxProjectTypes == 2

\* a property that the object does not have (or has as undefined or null)
Missing == "undefined"

ReplConnectSequence(name, projectType, cljsType) ==
    [name |-> name, projectType |-> projectType, cljsType |-> cljsType]

leiningenDefaults ==
    << ReplConnectSequence("Leiningen", "Leiningen", Missing),
       ReplConnectSequence("Leiningen + Figwheel", "Leiningen", "lein-figwheel"),
       ReplConnectSequence("Leiningen + Figwheel Main", "Leiningen", "Figwheel Main") >>

cljDefaults ==
    << ReplConnectSequence("Clojure CLI", "Clojure CLI", Missing),
       ReplConnectSequence("Clojure CLI + Figwheel", "Clojure CLI", "lein-figwheel"),
       ReplConnectSequence("Clojure CLI + Figwheel Main", "Clojure CLI", "Figwheel Main") >>

shadowCljsDefaults ==
    << ReplConnectSequence("shadow-cljs", "shadow-cljs", "shadow-cljs") >>

defaultSequences ==
    [pType \in {"lein", "clj", "shadow-cljs"} |->
        CASE pType = "lein" -> leiningenDefaults
          [] pType = "clj" -> cljDefaults
          [] pType = "shadow-cljs" -> shadowCljsDefaults]

\* sequence.name == undefined || sequence.projectType == undefined
Incomplete(sequence) ==
    sequence.name = Missing \/ sequence.projectType = Missing

getCustomConnectSequences_skipIncomplete(sequences) ==
    SelectSeq(sequences, LAMBDA sequence : ~Incomplete(sequence))

\* for (let sequence of sequences) { if (...) { showWarningMessage(...);
\* return []; } } return sequences;
getCustomConnectSequences(sequences) ==
    IF \E i \in DOMAIN sequences : Incomplete(sequences[i])
    THEN <<>> ELSE sequences

\* the warning message is shown
Warns(sequences) == \E i \in DOMAIN sequences : Incomplete(sequences[i])

RECURSIVE ConcatDefaults(_, _, _)
\* for (let pType of projectTypes) { result = result.concat(defaultSequences[pType]); }
ConcatDefaults(projectTypes, i, result) ==
    IF i > Len(projectTypes) THEN result
    ELSE ConcatDefaults(projectTypes, i + 1,
                        result \o defaultSequences[projectTypes[i]])

getConnectSequences(sequences, projectTypes) ==
    ConcatDefaults(projectTypes, 1, <<>>) \o getCustomConnectSequences(sequences)

\* the entries a user writes: with or without a name and a project type
CustomEntries ==
    { ReplConnectSequence(name, projectType, Missing) :
        name \in {Missing, "custom"}, projectType \in {Missing, "Leiningen"} }

Configs == UNION {[1..n -> CustomEntries] : n \in 0..MaxCustom}

ProjectTypeLists ==
    UNION {[1..n -> DOMAIN defaultSequences] : n \in 0..MaxProjectTypes}

InitSequences ==
    /\ heap = <<InitialState>>
    /\ readerTokens = <<>>
    /\ state = <<1>>
    /\ hist = <<>>
    /\ active = NoCall
    /\ probe \in [op : {"getConnectSequences"}, sequences : Configs,
                  projectTypes : ProjectTypeLists, done : {FALSE},
                  warned : {FALSE}, result : {<<>>}]
    /\ debugger = NoDebugger

\* getConnectSequences(projectTypes) with state.config().replConnectSequences
applyGetConnectSequences ==
    /\ probe.op = "getConnectSequences"
    /\ ~probe.done
    /\ probe' = [probe EXCEPT
                   !.done = TRUE,
                   !.warned = Warns(probe.sequences),
                   !.result = getConnectSequences(probe.sequences,
                                                  probe.projectTypes)]
    /\ UNCHANGED <<heap, readerTokens, state, hist, active, debugger>>

NextSequences == applyGetConnectSequences

SpecSequences == InitSequences /\ [][NextSequences]_vars

(***************************************************************************)
(* C22 as stated: when exactly one custom sequence is defined in the       *)
(* configuration, getConnectSequences returns only that sequence; in every *)
(* other case it returns the custom sequences together with the defaults   *)
(* of the given project types.                                             *)
(***************************************************************************)
\* every default sequence of every given project type is in the result
HasDefaults(result, projectTypes) ==
    \A i \in DOMAIN projectTypes :
        \A d \in DOMAIN defaultSequences[projectTypes[i]] :
            \E r \in DOMAIN result : result[r] = defaultSequences[projectTypes[i]][d]

C22_OnlyCustomWhenOne ==
    (probe.op = "getConnectSequences" /\ probe.done) =>
        IF Len(probe.sequences) = 1
        THEN probe.result = probe.sequences
        ELSE /\ HasDefaults(probe.result, probe.projectTypes)
             /\ \A i \in DOMAIN probe.sequences :
                   \E r \in DOMAIN probe.result : probe.result[r] = probe.sequences[i]

(***************************************************************************)
(* C23: when an entry of replConnectSequences has no name or no project    *)
(* type, the result of getConnectSequences is exactly the default          *)
(* sequences of the given project types, in the order of the project       *)
(* types, with no custom entry at all; when every entry has both, the      *)
(* result is those defaults followed by all the entries, in their order.   *)
(***************************************************************************)
RECURSIVE DefaultsBefore(_, _)
\* how many default sequences the first i project types have
DefaultsBefore(projectTypes, i) ==
    IF i = 0 THEN 0
    ELSE DefaultsBefore(projectTypes, i - 1)
           + Len(defaultSequences[projectTypes[i]])

\* result starts with the defaults of the project types, one type after
\* the other
DefaultsFirst(result, projectTypes) ==
    /\ Len(result) >= DefaultsBefore(projectTypes, Len(projectTypes))
    /\ \A i \in DOMAIN projectTypes :
          \A d \in DOMAIN defaultSequences[projectTypes[i]] :
              result[DefaultsBefore(projectTypes, i - 1) + d]
                  = defaultSequences[projectTypes[i]][d]

MaxHandled == 3

LOCALS_REFERENCE == 1

SEND_STOPPED_EVENT == "send-stopped-event"
SEND_TERMINATED_EVENT == "send-terminated-event"

\* state.deref().get(DEBUG_RESPONSE_KEY) when nothing was stored: undefined
NoResponse == [id |-> 0]

NoRequest == [req |-> 0]
NoArrival == [arrived |-> FALSE]
NoQuit == [id |-> 0]

\* the need-debug-input responses of the REPL: file, line and column are
\* given by their typeof, locals by their number
NeedDebugInputs ==
    { [id |-> p[1], key |-> p[2], locals |-> p[3],
       file |-> l[1], line |-> l[2], column |-> l[3]] :
        p \in { <<1, "key one", 0>>, <<2, "key two", 1>> },
        l \in { <<"string", "number", "number">>,
                <<Missing, "number", "number">>,
                <<"string", Missing, "number">>,
                <<"string", "number", Missing>> } }

\* typeof response.file === 'string' && typeof response.column === 'number'
\* && typeof response.line === 'number'
InEditor(response) ==
    /\ response.file = "string"
    /\ response.column = "number"
    /\ response.line = "number"

\* a request reaches its handler
Begin(d, command) ==
    [d EXCEPT !.handled = @ + 1,
              !.last = [req |-> d.handled + 1, command |-> command,
                        connected |-> d.cljSession,
                        stored |-> d.debugResponse # NoResponse,
                        responses |-> 0, success |-> TRUE,
                        capabilities |-> FALSE, events |-> <<>>,
                        input |-> "none", threw |-> FALSE,
                        debugMode |-> "same", annotated |-> FALSE]]

\* this.sendResponse(response)
sendResponse(d) ==
    [d EXCEPT !.last.responses = @ + 1,
              !.pending = { IF p.req = d.last.req
                            THEN [p EXCEPT !.responded = TRUE] ELSE p : p \in @ }]

\* this.sendEvent(event)
sendEvent(d, event) == [d EXCEPT !.last.events = Append(@, event)]

\* response.success = false
Fail(d) == [d EXCEPT !.last.success = FALSE]

\* the handler throws (or its promise is rejected) before it sends its
\* response; the caller of a handler that is not async may catch what it
\* throws and answer with an error response
Throws(d, caught) ==
    [d EXCEPT !.last.threw = TRUE,
              !.last.success = IF caught THEN FALSE ELSE @,
              !.last.responses = IF caught THEN @ + 1 ELSE @]

\* cljSession.sendDebugInput(input, id, key) with the id and key of the
\* stored debug response; `watched` when a .then callback waits for the
\* answer
sendDebugInput(d, input, watched) ==
    [d EXCEPT !.last.input = input,
              !.pending = IF watched
                          THEN @ \cup {[req |-> d.last.req, input |-> input,
                                        id |-> d.debugResponse.id,
                                        key |-> d.debugResponse.key,
                                        responded |-> FALSE,
                                        answered |-> FALSE, stopped |-> 0]}
                          ELSE @]

stepRequest_succeeds(d, input, caught) ==
    IF d.cljSession /\ d.debugResponse # NoResponse
    THEN sendResponse(sendDebugInput(d, input, TRUE))
    ELSE sendResponse(d)

\* the body of continueRequest, nextRequest, stepInRequest, stepOutRequest
stepRequest(d, input, caught) ==
    IF d.cljSession
    THEN IF d.debugResponse = NoResponse
         THEN Throws(d, caught)
         ELSE sendResponse(sendDebugInput(d, input, TRUE))
    ELSE sendResponse(Fail(d))

\* cljReplWindow.startDebugMode(...) / cljReplWindow.stopDebugMode()
DebugMode(d, replWindow, mode) ==
    IF replWindow THEN [d EXCEPT !.last.debugMode = mode] ELSE d

\* debug.startDebugging(undefined, CALVA_DEBUG_CONFIGURATION)
startDebugging(d) ==
    [d EXCEPT !.starting = @ + 1, !.sessions = @ + 1]

\* what is known of the scene when a need-debug-input response arrives
Arrival(d, response, quit) ==
    [arrived |-> TRUE, response |-> response, before |-> d.debugResponse,
     sessionsBefore |-> d.sessions, activeBefore |-> d.activeDebugSession,
     startingBefore |-> d.starting, quit |-> quit]

needDebugInput_stores(d, response) ==
    [d EXCEPT !.handled = @ + 1,
              !.debugResponse = response,
              !.arrival = Arrival(d, response, NoQuit)]

\* the body of handleNeedDebugInput(response)
needDebugInput(d, response) ==
    IF InEditor(response)
    THEN IF ~d.activeDebugSession
         THEN startDebugging([d EXCEPT !.handled = @ + 1,
                                       !.debugResponse = response,
                                       !.arrival = Arrival(d, response, NoQuit)])
         ELSE [d EXCEPT !.handled = @ + 1,
                        !.debugResponse = response,
                        !.arrival = Arrival(d, response, NoQuit)]
    ELSE [d EXCEPT !.handled = @ + 1,
                   !.arrival = Arrival(d, response,
                                       [id |-> response.id, key |-> response.key])]

InitDebug ==
    /\ heap = <<InitialState>>
    /\ readerTokens = <<>>
    /\ state = <<1>>
    /\ hist = <<>>
    /\ active = NoCall
    /\ probe = NoProbe
    /\ debugger \in [loaded : {TRUE}, cljSession : BOOLEAN,
                     debugResponse : {NoResponse},
                     activeDebugSession : {FALSE}, starting : {0},
                     sessions : {0}, stoppedRequests : {0}, inbox : {0},
                     handled : {0}, last : {NoRequest},
                     arrival : {NoArrival}, pending : {{}}]

\* the adapter has handled a request
Handled(d) ==
    /\ debugger.handled < MaxHandled
    /\ debugger' = d
    /\ UNCHANGED <<heap, readerTokens, state, hist, active, probe>>

initializeRequest ==
    Handled(IF ~debugger.cljSession
            THEN sendResponse(Fail(sendEvent(Begin(debugger, "initialize"),
                                             "terminated")))
            ELSE sendResponse([Begin(debugger, "initialize")
                                 EXCEPT !.last.capabilities = TRUE]))

attachRequest ==
    \E replWindow \in BOOLEAN :
        Handled(sendResponse(DebugMode(Begin(debugger, "attach"),
                                       replWindow, "started")))

continueRequest ==
    Handled(stepRequest(Begin(debugger, "continue"), ":continue", FALSE))

restartRequest == Handled(sendResponse(Fail(Begin(debugger, "restart"))))

nextRequest ==
    \E caught \in BOOLEAN :
        Handled(stepRequest(Begin(debugger, "next"), ":next", caught))

stepInRequest ==
    \E caught \in BOOLEAN :
        Handled(stepRequest(Begin(debugger, "stepIn"), ":in", caught))

stepOutRequest ==
    \E caught \in BOOLEAN :
        Handled(stepRequest(Begin(debugger, "stepOut"), ":out", caught))

threadsRequest == Handled(sendResponse(Begin(debugger, "threads")))

\* `found`: moveTokenCursorToBreakpoint did not throw
stackTraceRequest ==
    \E found \in BOOLEAN :
        Handled(IF debugger.debugResponse = NoResponse
                THEN Throws(Begin(debugger, "stackTrace"), FALSE)
                ELSE IF ~found
                THEN sendResponse(Fail(sendEvent(Begin(debugger, "stackTrace"),
                                                 "terminated")))
                ELSE [sendResponse(Begin(debugger, "stackTrace"))
                        EXCEPT !.last.annotated = TRUE])

scopesRequest == Handled(sendResponse(Begin(debugger, "scopes")))

\* with locals and no session, _createVariable calls eval on undefined and
\* the promise of the handler is rejected
variablesRequest ==
    \E variablesReference \in {LOCALS_REFERENCE, LOCALS_REFERENCE + 1} :
        Handled(IF variablesReference # LOCALS_REFERENCE
                THEN sendResponse(Begin(debugger, "variables"))
                ELSE IF debugger.debugResponse = NoResponse
                THEN Throws(Begin(debugger, "variables"), FALSE)
                ELSE IF debugger.debugResponse.locals > 0 /\ ~debugger.cljSession
                THEN Throws(Begin(debugger, "variables"), FALSE)
                ELSE sendResponse(Begin(debugger, "variables")))

disconnectRequest ==
    \E replWindow \in BOOLEAN :
        Handled(IF ~debugger.cljSession
                THEN sendResponse(DebugMode(Begin(debugger, "disconnect"),
                                            replWindow, "stopped"))
                ELSE IF debugger.debugResponse = NoResponse
                THEN Throws(Begin(debugger, "disconnect"), FALSE)
                ELSE sendResponse(DebugMode(
                         sendDebugInput(Begin(debugger, "disconnect"),
                                        ":quit", FALSE),
                         replWindow, "stopped")))

terminateRequest == Handled(sendResponse(Begin(debugger, "terminate")))

\* a send-stopped-event request is one that onDidStartDebugSession sent,
\* with the reason 'breakpoint'
customRequest ==
    \E command \in {SEND_STOPPED_EVENT, SEND_TERMINATED_EVENT, "other"} :
        /\ command = SEND_STOPPED_EVENT => debugger.inbox > 0
        /\ Handled(
             CASE command = SEND_TERMINATED_EVENT ->
                    sendResponse(sendEvent(Begin(debugger, command), "terminated"))
               [] command = SEND_STOPPED_EVENT ->
                    sendResponse(sendEvent(
                        [Begin(debugger, command) EXCEPT !.inbox = @ - 1],
                        "stopped breakpoint"))
               [] OTHER -> sendResponse(Begin(debugger, command)))

\* a need-debug-input response of the connected REPL session arrives
handleNeedDebugInput ==
    /\ debugger.cljSession
    /\ \E response \in NeedDebugInputs :
          Handled(needDebugInput(debugger, response))

\* the editor has started a session that startDebugging asked for; the
\* listener sends customRequest(SEND_STOPPED_EVENT, { reason: 'breakpoint' })
onDidStartDebugSession ==
    /\ debugger.starting > 0
    /\ debugger' = [debugger EXCEPT !.starting = @ - 1,
                                    !.activeDebugSession = TRUE,
                                    !.stoppedRequests = @ + 1,
                                    !.inbox = @ + 1]
    /\ UNCHANGED <<heap, readerTokens, state, hist, active, probe>>

\* the active debug session ends
sessionEnds ==
    /\ debugger.activeDebugSession
    /\ debugger.starting = 0
    /\ debugger' = [debugger EXCEPT !.activeDebugSession = FALSE]
    /\ UNCHANGED <<heap, readerTokens, state, hist, active, probe>>

\* the REPL answers a debug input: the promise of sendDebugInput resolves
\* and its callback sends StoppedEvent('breakpoint', THREAD_ID)
replAnswers ==
    /\ \E p \in debugger.pending :
          /\ ~p.answered
          /\ debugger' =
               [debugger EXCEPT !.pending =
                   (@ \ {p}) \cup {[p EXCEPT !.answered = TRUE,
                                             !.stopped = @ + 1]}]
    /\ UNCHANGED <<heap, readerTokens, state, hist, active, probe>>

\* the Clojure REPL session is connected or lost
replConnection ==
    /\ debugger.handled < MaxHandled
    /\ debugger' = [debugger EXCEPT !.cljSession = ~@]
    /\ UNCHANGED <<heap, readerTokens, state, hist, active, probe>>

NextDebug ==
    \/ initializeRequest
    \/ attachRequest
    \/ continueRequest
    \/ restartRequest
    \/ nextRequest
    \/ stepInRequest
    \/ stepOutRequest
    \/ threadsRequest
    \/ stackTraceRequest
    \/ scopesRequest
    \/ variablesRequest
    \/ disconnectRequest
    \/ terminateRequest
    \/ customRequest
    \/ handleNeedDebugInput
    \/ onDidStartDebugSession
    \/ sessionEnds
    \/ replAnswers
    \/ replConnection

SpecDebug == InitDebug /\ [][NextDebug]_vars

(***************************************************************************)
(* C24 as stated: every request that CalvaDebugSession handles is answered *)
(* by exactly one sendResponse, with or without a connected Clojure REPL   *)
(* session and with or without a stored debug response.                    *)
(***************************************************************************)
C24_OneResponse ==
    debugger.last # NoRequest => debugger.last.responses = 1

(***************************************************************************)
(* C25 as stated: a continue, next, stepIn or stepOut request handled with *)
(* a connected Clojure session sends its debug input and its response;     *)
(* the response is sent before the StoppedEvent, and the request gets      *)
(* exactly one StoppedEvent('breakpoint'), sent when the REPL has answered *)
(* that debug input and not before.                                        *)
(***************************************************************************)
StepCommands == {"continue", "next", "stepIn", "stepOut"}

C25_StoppedAfterResponse ==
    /\ (debugger.last # NoRequest
          /\ debugger.last.command \in StepCommands
          /\ debugger.last.connected)
        => /\ debugger.last.responses = 1
           /\ debugger.last.input # "none"
           /\ \E p \in debugger.pending : p.req = debugger.last.req
    /\ \A p \in debugger.pending :
          /\ p.stopped > 0 => p.responded
          /\ p.stopped <= 1
          /\ p.stopped = 1 <=> p.answered

(***************************************************************************)
(* C26: with no Clojure REPL session connected, a continue, next, stepIn   *)
(* or stepOut request sends no debug input, leads to no StoppedEvent, and  *)
(* is answered once with success = false; an initialize request sends a    *)
(* TerminatedEvent and is answered once with success = false and with no   *)
(* capabilities.                                                           *)
(***************************************************************************)
C26_NoSession ==
    (debugger.last # NoRequest /\ ~debugger.last.connected) =>
        /\ debugger.last.command \in StepCommands =>
              /\ debugger.last.input = "none"
              /\ debugger.last.events = <<>>
              /\ \A p \in debugger.pending : p.req # debugger.last.req
              /\ debugger.last.responses = 1
              /\ ~debugger.last.success
        /\ debugger.last.command = "initialize" =>
              /\ debugger.last.events = <<"terminated">>
              /\ debugger.last.responses = 1
              /\ ~debugger.last.success
              /\ ~debugger.last.capabilities

\* a debug response is stored and an earlier step was sent to the REPL;
\* then the session was lost and a next request was handled
C26_Witness ==
    /\ debugger.last # NoRequest
    /\ debugger.last.command = "next"
    /\ ~debugger.last.connected
    /\ debugger.last.stored
    /\ debugger.pending # {}

(***************************************************************************)
(* C27: a need-debug-input response whose file is not a string, or whose   *)
(* line or column is not a number, leaves the stored debug response as it  *)
(* was and starts no debug session; :quit is sent to the REPL with the id  *)
(* and key of that response.  What is stored as the debug response is      *)
(* always a response with a string file and a numeric line and column.     *)
(***************************************************************************)
C27_OutsideEditorQuits ==
    /\ debugger.arrival.arrived =>
          IF InEditor(debugger.arrival.response)
          THEN /\ debugger.debugResponse = debugger.arrival.response
               /\ debugger.arrival.quit = NoQuit
          ELSE /\ debugger.debugResponse = debugger.arrival.before
               /\ debugger.sessions = debugger.arrival.sessionsBefore
               /\ debugger.arrival.quit.id = debugger.arrival.response.id
               /\ debugger.arrival.quit.key = debugger.arrival.response.key
    /\ debugger.debugResponse # NoResponse =>
          /\ debugger.debugResponse.file = "string"
          /\ debugger.debugResponse.line = "number"
          /\ debugger.debugResponse.column = "number"

\* a response from outside the editor arrived while another response was
\* stored and no debug session was active
C27_Witness ==
    /\ debugger.arrival.arrived
    /\ ~InEditor(debugger.arrival.response)
    /\ debugger.arrival.before # NoResponse
    /\ debugger.arrival.before.id # debugger.arrival.response.id
    /\ ~debugger.arrival.activeBefore
    /\ debugger.arrival.startingBefore = 0

(***************************************************************************)
(* C28 as stated: a need-debug-input response that arrives while a debug   *)
(* session is active, or is being started, starts no second session and    *)
(* only replaces the stored debug response; and every session that was     *)
(* started has been sent one send-stopped-event request with the reason    *)
(* breakpoint.                                                             *)
(***************************************************************************)
C28_OneSessionPerStop ==
    /\ (debugger.arrival.arrived
          /\ InEditor(debugger.arrival.response)
          /\ (debugger.arrival.activeBefore \/ debugger.arrival.startingBefore > 0))
        => /\ debugger.sessions = debugger.arrival.sessionsBefore
           /\ debugger.debugResponse = debugger.arrival.response
    /\ debugger.stoppedRequests = debugger.sessions - debugger.starting

====
